---- MODULE Spec2Model ----
(***************************************************************************)
(* Model of the annotation scoring engine of label-platform-ui:            *)
(* calculateIoU and evaluateSingleImage of src/app/dashboard/page.tsx.     *)
(*                                                                         *)
(* Numbers: box coordinates are integers, so every product and sum of the  *)
(* code is exact; a quotient is kept as an exact fraction [n, d] in lowest *)
(* terms with d > 0 (JavaScript's -0 compares equal to 0 and is kept as 0).*)
(* Prediction indices are 0-based as in the code; predictionAnnotations[i] *)
(* of the code is predictionAnnotations[i + 1] here.                       *)
(***************************************************************************)
EXTENDS Integers, Sequences, FiniteSets, TLC

VARIABLES
    groundTruthAnnotations,   \* first argument of evaluateSingleImage
    predictionAnnotations,    \* second argument of evaluateSingleImage
    iouThreshold,             \* third argument of evaluateSingleImage
    metrics,                  \* the EvaluationResults object being built
    matchedPredIndices,       \* the Set<number> of claimed prediction indices
    gtPos,                    \* position of the for-of loop over the ground truth
    claims,                   \* per processed ground-truth box, the indices it added to the set
    pc,                       \* position inside evaluateSingleImage
    box1,                     \* first argument of a direct calculateIoU call
    box2,                     \* second argument of a direct calculateIoU call
    iouResult,                \* value returned by the direct calculateIoU call
    iouPc,                    \* position of the direct calculateIoU call
    calls,                    \* the frames of the evaluateSingleImage calls in progress
    clients,                  \* the module-level registry of SSE clients of the webhook route
    clientId,                 \* the module-level counter of the webhook route
    streams,                  \* the ReadableStreams created by GET, in creation order
    requests,                 \* the POST requests whose body is still being read
    posted,                   \* number of POST requests received so far
    ticks,                    \* number of keep-alive intervals that have fired
    localStorage,             \* the item "ui-annotation-projects" of window.localStorage
    savedProjects,            \* savedProjects of the mounted page
    selectedProjectResults,   \* the evaluation report shown by the dashboard
    mounted,                  \* whether the mount effects of the page have run
    image,                    \* image of the annotation page
    currentProjectName,       \* currentProjectName of the annotation page
    currentProjectId,         \* currentProjectId of the annotation page
    annotations,              \* annotations of the annotation page
    isDrawing,                \* isDrawing of the annotation page
    currentBox,               \* currentBox of the annotation page
    isNameDialogOpen,         \* isNameDialogOpen of the annotation page
    pendingImageFile,         \* pendingImageFile of the annotation page
    projectName,              \* projectName, the text of the name dialog
    isUnsavedChangesDialogOpen, \* isUnsavedChangesDialogOpen of the annotation page
    pendingNavigation,        \* pendingNavigation of the annotation page
    hasUnsavedChanges,        \* hasUnsavedChanges of the annotation page
    isUploading,              \* isUploading of the annotation page
    isLoadingProjects,        \* isLoadingProjects of the annotation page
    upload,                   \* the save whose upload request is in flight
    fetches,                  \* number of project-list requests in flight
    predictTimers,            \* number of pending setTimeout callbacks of handlePredict
    now,                      \* Date.now()
    navigated,                \* the href the page has navigated to
    storedAtOpen              \* the localStorage item as it was when the page was opened

evalVars == <<groundTruthAnnotations, predictionAnnotations, iouThreshold, metrics,
              matchedPredIndices, gtPos, claims, pc>>
iouVars == <<box1, box2, iouResult, iouPc>>
callVars == <<calls>>
sseVars == <<clients, clientId, streams, requests, posted, ticks>>
dashVars == <<localStorage, savedProjects, selectedProjectResults, mounted>>
workspaceVars == <<image, currentProjectName, currentProjectId, annotations, isDrawing,
                   currentBox, isNameDialogOpen, pendingImageFile, projectName,
                   isUnsavedChangesDialogOpen, pendingNavigation, hasUnsavedChanges,
                   isUploading, isLoadingProjects, upload, fetches, predictTimers, now,
                   navigated, storedAtOpen>>
pageVars == <<dashVars, workspaceVars>>

\* groups of the annotation page's variables
projectVars == <<image, currentProjectName, currentProjectId, annotations>>
drawVars == <<isDrawing, currentBox>>
nameDialogVars == <<isNameDialogOpen, pendingImageFile, projectName>>
navVars == <<isUnsavedChangesDialogOpen, pendingNavigation, navigated>>
listVars == <<savedProjects, localStorage>>
uploadVars == <<isUploading, upload>>
fetchVars == <<isLoadingProjects, fetches>>
vars == <<groundTruthAnnotations, predictionAnnotations, iouThreshold, metrics,
          matchedPredIndices, gtPos, claims, pc, box1, box2, iouResult, iouPc, calls,
          clients, clientId, streams, requests, posted, ticks,
          localStorage, savedProjects, selectedProjectResults, mounted,
          image, currentProjectName, currentProjectId, annotations, isDrawing,
          currentBox, isNameDialogOpen, pendingImageFile, projectName,
          isUnsavedChangesDialogOpen, pendingNavigation, hasUnsavedChanges,
          isUploading, isLoadingProjects, upload, fetches, predictTimers, now,
          navigated, storedAtOpen>>

\* what a step of one part of the model leaves alone
notEvalVars == <<iouVars, callVars, sseVars, pageVars>>
notIoUVars == <<evalVars, callVars, sseVars, pageVars>>
notCallVars == <<evalVars, iouVars, sseVars, pageVars>>
notSseVars == <<evalVars, iouVars, callVars, pageVars>>
notPageVars == <<evalVars, iouVars, callVars, sseVars>>
\* what no step of the annotation page writes
notMainVars == <<selectedProjectResults, storedAtOpen, notPageVars>>

----------------------------------------------------------------------------
(* Bounds of the model *)

MaxGT == 2
MaxPred == 2
MaxCoord == 1
MaxDim == 2
MaxStreams == 2
MaxPosts == 2
MaxTicks == 1
MaxStored == 2
MaxAnnotations == 3
MaxClock == 3

----------------------------------------------------------------------------
(* Exact fractions *)

Abs(k) == IF k < 0 THEN -k ELSE k

RECURSIVE GCD(_, _)
GCD(a, b) == IF b = 0 THEN a ELSE GCD(b, a % b)

\* the number n / d (d # 0), in lowest terms with a positive denominator
Rat(n, d) ==
    LET g == GCD(Abs(n), Abs(d))
        s == IF d < 0 THEN -1 ELSE 1
    IN  [n |-> (s * n) \div g, d |-> (s * d) \div g]

Zero == [n |-> 0, d |-> 1]
One == [n |-> 1, d |-> 1]

RatLT(a, b) == a.n * b.d < b.n * a.d
RatLE(a, b) == a.n * b.d <= b.n * a.d
RatAdd(a, b) == Rat(a.n * b.d + b.n * a.d, a.d * b.d)
RatMul(a, b) == Rat(a.n * b.n, a.d * b.d)
\* a / b for b # 0
RatDiv(a, b) == Rat(a.n * b.d, a.d * b.n)

Max(a, b) == IF a >= b THEN a ELSE b
Min(a, b) == IF a <= b THEN a ELSE b

----------------------------------------------------------------------------
(* calculateIoU *)

\* x_overlap without the clamp at 0
x_overlap_Unclamped(b1, b2) ==
    Min(b1.x + b1.width, b2.x + b2.width) - Max(b1.x, b2.x)

\* x_overlap measured from the first box's left edge
x_overlap_FromFirstBox(b1, b2) ==
    Max(0, Min(b1.x + b1.width, b2.x + b2.width) - b1.x)

x_overlap(b1, b2) ==
    Max(0, Min(b1.x + b1.width, b2.x + b2.width) - Max(b1.x, b2.x))

\* y_overlap without the clamp at 0
y_overlap_Unclamped(b1, b2) ==
    Min(b1.y + b1.height, b2.y + b2.height) - Max(b1.y, b2.y)

y_overlap(b1, b2) ==
    Max(0, Min(b1.y + b1.height, b2.y + b2.height) - Max(b1.y, b2.y))

intersection_area(b1, b2) == x_overlap(b1, b2) * y_overlap(b1, b2)

box_area(b) == b.width * b.height

\* union_area that counts the intersection twice
union_area_Sum(b1, b2) == box_area(b1) + box_area(b2)

union_area(b1, b2) == box_area(b1) + box_area(b2) - intersection_area(b1, b2)

calculateIoU(b1, b2) ==
    IF union_area(b1, b2) = 0
    THEN Zero
    ELSE Rat(intersection_area(b1, b2), union_area(b1, b2))

----------------------------------------------------------------------------
(* evaluateSingleImage *)

labels == {"Button", "Input", "Radio", "Drop"}

ZeroMetrics ==
    [total_ground_truth |-> 0, true_positives |-> 0, false_positives |-> 0,
     false_negatives |-> 0, precision |-> Zero, recall |-> Zero, f1_score |-> Zero]

\* the metrics object after the first labels.forEach, lines 68-78
InitialMetrics == [l \in labels |-> ZeroMetrics]

\* the metrics object before labels.forEach has filled it
EmptyMetrics == [l \in {} |-> ZeroMetrics]

\* the candidate test without the check of the claimed set
IsCandidate_IgnoreClaimed(gtBox, predBox, i, matched) ==
    predBox.label = gtBox.label

\* the candidate test without the comparison of the labels
IsCandidate_IgnoreLabel(gtBox, predBox, i, matched) ==
    i \notin matched

\* the candidate test of line 89
IsCandidate(gtBox, predBox, i, matched) ==
    predBox.label = gtBox.label /\ i \notin matched

\* the scan that keeps the first candidate of positive IoU
RECURSIVE ScanPredictions_FirstCandidate(_, _, _, _, _)
ScanPredictions_FirstCandidate(gtBox, preds, matched, i, best) ==
    IF i >= Len(preds)
    THEN best
    ELSE LET predBox == preds[i + 1]
             iou == calculateIoU(gtBox, predBox)
         IN  IF /\ IsCandidate(gtBox, predBox, i, matched)
                /\ best.bestPredIndex = -1
                /\ RatLT(best.bestIoU, iou)
             THEN ScanPredictions_FirstCandidate(gtBox, preds, matched, i + 1,
                                                 [bestIoU |-> iou, bestPredIndex |-> i])
             ELSE ScanPredictions_FirstCandidate(gtBox, preds, matched, i + 1, best)

\* the scan of lines 87-96 from index i on, with the best candidate so far
RECURSIVE ScanPredictions(_, _, _, _, _)
ScanPredictions(gtBox, preds, matched, i, best) ==
    IF i >= Len(preds)
    THEN best
    ELSE LET predBox == preds[i + 1]
             iou == calculateIoU(gtBox, predBox)
         IN  IF IsCandidate(gtBox, predBox, i, matched) /\ RatLT(best.bestIoU, iou)
             THEN ScanPredictions(gtBox, preds, matched, i + 1,
                                  [bestIoU |-> iou, bestPredIndex |-> i])
             ELSE ScanPredictions(gtBox, preds, matched, i + 1, best)

BestMatch(gtBox, preds, matched) ==
    ScanPredictions(gtBox, preds, matched, 0, [bestIoU |-> Zero, bestPredIndex |-> -1])

\* the test of line 98 against 0 instead of the threshold
IsMatch_AnyOverlap(best, threshold) == RatLT(Zero, best.bestIoU)

\* the test of line 98 with a strict comparison
IsMatch_Strict(best, threshold) == RatLT(threshold, best.bestIoU)

\* the test of line 98
IsMatch(best, threshold) == RatLE(threshold, best.bestIoU)

\* the iteration without the else branch of line 101
ProcessGtBox_NoElse(m, matched, gtBox, preds, threshold) ==
    LET counted == [m EXCEPT ![gtBox.label].total_ground_truth = @ + 1]
        best == BestMatch(gtBox, preds, matched)
    IN  IF IsMatch(best, threshold)
        THEN [metrics |-> [counted EXCEPT ![gtBox.label].true_positives = @ + 1],
              matched |-> matched \cup {best.bestPredIndex},
              added |-> {best.bestPredIndex}]
        ELSE [metrics |-> counted, matched |-> matched, added |-> {}]

\* one iteration of the loop over the ground truth, lines 82-104
ProcessGtBox(m, matched, gtBox, preds, threshold) ==
    LET counted == [m EXCEPT ![gtBox.label].total_ground_truth = @ + 1]
        best == BestMatch(gtBox, preds, matched)
    IN  IF IsMatch(best, threshold)
        THEN [metrics |-> [counted EXCEPT ![gtBox.label].true_positives = @ + 1],
              matched |-> matched \cup {best.bestPredIndex},
              added |-> {best.bestPredIndex}]
        ELSE [metrics |-> [counted EXCEPT ![gtBox.label].false_negatives = @ + 1],
              matched |-> matched,
              added |-> {}]

\* the loop over the predictions without the test of the claimed set
RECURSIVE CountFalsePositives_All(_, _, _, _)
CountFalsePositives_All(m, preds, matched, i) ==
    IF i >= Len(preds)
    THEN m
    ELSE CountFalsePositives_All([m EXCEPT ![preds[i + 1].label].false_positives = @ + 1],
                                 preds, matched, i + 1)

\* the loop over the predictions, lines 106-111, from index i on
RECURSIVE CountFalsePositives(_, _, _, _)
CountFalsePositives(m, preds, matched, i) ==
    IF i >= Len(preds)
    THEN m
    ELSE IF i \notin matched
         THEN CountFalsePositives([m EXCEPT ![preds[i + 1].label].false_positives = @ + 1],
                                  preds, matched, i + 1)
         ELSE CountFalsePositives(m, preds, matched, i + 1)

\* the rates with a precision of 1 when nothing was predicted
DeriveRates_PrecisionOne(entry) ==
    LET tp == entry.true_positives
        fp == entry.false_positives
        fn == entry.false_negatives
        precision == IF tp + fp = 0 THEN One ELSE Rat(tp, tp + fp)
        recall == IF tp + fn = 0 THEN Zero ELSE Rat(tp, tp + fn)
        f1_score == IF RatAdd(precision, recall) = Zero
                    THEN Zero
                    ELSE RatDiv(RatMul(Rat(2, 1), RatMul(precision, recall)),
                                RatAdd(precision, recall))
    IN  [entry EXCEPT !.precision = precision, !.recall = recall, !.f1_score = f1_score]

\* the rates with an f1_score that lacks the factor 2
DeriveRates_NoFactorTwo(entry) ==
    LET tp == entry.true_positives
        fp == entry.false_positives
        fn == entry.false_negatives
        precision == IF tp + fp = 0 THEN Zero ELSE Rat(tp, tp + fp)
        recall == IF tp + fn = 0 THEN Zero ELSE Rat(tp, tp + fn)
        f1_score == IF RatAdd(precision, recall) = Zero
                    THEN Zero
                    ELSE RatDiv(RatMul(precision, recall), RatAdd(precision, recall))
    IN  [entry EXCEPT !.precision = precision, !.recall = recall, !.f1_score = f1_score]

\* the rates with an f1_score that is not divided by precision + recall
DeriveRates_F1NoDivision(entry) ==
    LET tp == entry.true_positives
        fp == entry.false_positives
        fn == entry.false_negatives
        precision == IF tp + fp = 0 THEN Zero ELSE Rat(tp, tp + fp)
        recall == IF tp + fn = 0 THEN Zero ELSE Rat(tp, tp + fn)
        f1_score == RatMul(Rat(2, 1), RatMul(precision, recall))
    IN  [entry EXCEPT !.precision = precision, !.recall = recall, !.f1_score = f1_score]

\* the body of the second labels.forEach, lines 114-124
DeriveRates(entry) ==
    LET tp == entry.true_positives
        fp == entry.false_positives
        fn == entry.false_negatives
        precision == IF tp + fp = 0 THEN Zero ELSE Rat(tp, tp + fp)
        recall == IF tp + fn = 0 THEN Zero ELSE Rat(tp, tp + fn)
        f1_score == IF RatAdd(precision, recall) = Zero
                    THEN Zero
                    ELSE RatDiv(RatMul(Rat(2, 1), RatMul(precision, recall)),
                                RatAdd(precision, recall))
    IN  [entry EXCEPT !.precision = precision, !.recall = recall, !.f1_score = f1_score]

\* the loop over the ground truth, lines 82-104, from position g on
RECURSIVE ProcessAllGroundTruth(_, _, _, _, _, _)
ProcessAllGroundTruth(m, matched, gt, preds, threshold, g) ==
    IF g > Len(gt)
    THEN [metrics |-> m, matched |-> matched]
    ELSE LET r == ProcessGtBox(m, matched, gt[g], preds, threshold)
         IN  ProcessAllGroundTruth(r.metrics, r.matched, gt, preds, threshold, g + 1)

\* the value evaluateSingleImage returns, lines 60-128
EvaluateSingleImage(gt, preds, threshold) ==
    LET r == ProcessAllGroundTruth(InitialMetrics, {}, gt, preds, threshold, 1)
        counted == CountFalsePositives(r.metrics, preds, r.matched, 0)
    IN  [l \in labels |-> DeriveRates(counted[l])]

----------------------------------------------------------------------------
(* Inputs *)

Annotation(x, y, width, height, label) ==
    [x |-> x, y |-> y, width |-> width, height |-> height, label |-> label]

\* the evaluated boxes: a Button square, the square shifted by half its width, its
\* upper half, an Input square at the place of the Button square, and an Input
\* box of zero width and height
Annotations ==
    { Annotation(0, 0, 2, 2, "Button"),
      Annotation(1, 0, 2, 2, "Button"),
      Annotation(0, 0, 2, 1, "Button"),
      Annotation(0, 0, 2, 2, "Input"),
      Annotation(0, 0, 0, 0, "Input") }

SeqsUpTo(S, k) == UNION { [1..j -> S] : j \in 0..k }

\* thresholds a caller passes: negative, zero, 1/3, the default 1/2
Thresholds == { Rat(-1, 2), Zero, Rat(1, 3), Rat(1, 2) }

\* boxes handed to calculateIoU directly
Boxes ==
    [x : 0..MaxCoord, y : 0..MaxCoord, width : (-MaxDim)..MaxDim, height : (-MaxDim)..MaxDim]

----------------------------------------------------------------------------
(* window.localStorage and the values React state holds for null *)

\* getItem of a key that was never set
NoItem == [kind |-> "null"]

\* an item that JSON.parse rejects
Garbage == [kind |-> "text"]

\* JSON.stringify of a project list, as stored by setItem
Stringify(projects) == [kind |-> "json", value |-> projects]

\* `if (saved)`: the item exists (a stored string is never empty here)
IsTruthyItem(item) == item # NoItem

\* JSON.parse succeeds
Parses(item) == item.kind = "json"

\* JSON.parse of an item it accepts
Parse(item) == item.value

\* the null of selectedProjectResults
NoReport == [kind |-> "null"]

\* the null of image, pendingImageFile and pendingNavigation (no image and
\* no href is the text "null")
Null == "null"

\* the null of currentProjectId (Date.now() is never 0)
NoId == 0

\* the null of currentBox
NoBox == [kind |-> "null"]

\* no upload request in flight
NoUpload == [kind |-> "null"]

----------------------------------------------------------------------------
(* The parts of the program that take no step in a specification *)

\* lines 72-92: the state of the annotation page before its first render,
\* with nothing in flight
NoWorkspace ==
    /\ image = Null
    /\ currentProjectName = ""
    /\ currentProjectId = NoId
    /\ annotations = <<>>
    /\ isDrawing = FALSE
    /\ currentBox = NoBox
    /\ isNameDialogOpen = FALSE
    /\ pendingImageFile = Null
    /\ projectName = ""
    /\ isUnsavedChangesDialogOpen = FALSE
    /\ pendingNavigation = Null
    /\ hasUnsavedChanges = FALSE
    /\ isUploading = FALSE
    /\ isLoadingProjects = FALSE
    /\ upload = NoUpload
    /\ fetches = 0
    /\ predictTimers = 0
    /\ now = MaxStored + 1
    /\ navigated = Null
    /\ storedAtOpen = NoItem

\* no page of the application is open
NoPageOpen ==
    /\ localStorage = NoItem
    /\ savedProjects = <<>>
    /\ selectedProjectResults = NoReport
    /\ mounted = FALSE
    /\ NoWorkspace


\* the webhook route module as loaded: no client, counter 0
NoWebhookTraffic ==
    /\ clients = <<>>
    /\ clientId = 0
    /\ streams = <<>>
    /\ requests = {}
    /\ posted = 0
    /\ ticks = 0

\* no evaluateSingleImage call in progress
NoEvaluation ==
    /\ groundTruthAnnotations = <<>>
    /\ predictionAnnotations = <<>>
    /\ iouThreshold = Rat(1, 2)
    /\ metrics = EmptyMetrics
    /\ matchedPredIndices = {}
    /\ gtPos = 1
    /\ claims = <<>>
    /\ pc = "idle"
    /\ box1 = [x |-> 0, y |-> 0, width |-> 0, height |-> 0]
    /\ box2 = [x |-> 0, y |-> 0, width |-> 0, height |-> 0]
    /\ iouResult = Zero
    /\ iouPc = "idle"
    /\ calls = <<>>

----------------------------------------------------------------------------
(* One call of evaluateSingleImage *)

Init ==
    /\ groundTruthAnnotations \in SeqsUpTo(Annotations, MaxGT)
    /\ predictionAnnotations \in SeqsUpTo(Annotations, MaxPred)
    /\ iouThreshold \in Thresholds
    /\ metrics = EmptyMetrics
    /\ matchedPredIndices = {}
    /\ gtPos = 1
    /\ claims = <<>>
    /\ pc = "start"
    /\ box1 = [x |-> 0, y |-> 0, width |-> 0, height |-> 0]
    /\ box2 = [x |-> 0, y |-> 0, width |-> 0, height |-> 0]
    /\ iouResult = Zero
    /\ iouPc = "idle"
    /\ calls = <<>>
    /\ NoWebhookTraffic
    /\ NoPageOpen

\* lines 65-80
InitMetrics ==
    /\ pc = "start"
    /\ metrics' = InitialMetrics
    /\ matchedPredIndices' = {}
    /\ pc' = IF Len(groundTruthAnnotations) = 0 THEN "predictions" ELSE "groundTruth"
    /\ UNCHANGED <<groundTruthAnnotations, predictionAnnotations, iouThreshold, gtPos, claims>>
    /\ UNCHANGED notEvalVars

\* a sequence without its element at 0-based index i
RemoveAt(boxes, i) ==
    [k \in 1..(Len(boxes) - 1) |-> IF k <= i THEN boxes[k] ELSE boxes[k + 1]]

\* the iteration for one ground-truth box that removes the claimed prediction
\* from the predictions array
ProcessGroundTruth_Splice ==
    /\ pc = "groundTruth"
    /\ gtPos <= Len(groundTruthAnnotations)
    /\ LET r == ProcessGtBox(metrics, matchedPredIndices, groundTruthAnnotations[gtPos],
                             predictionAnnotations, iouThreshold)
       IN  /\ metrics' = r.metrics
           /\ matchedPredIndices' = matchedPredIndices
           /\ claims' = Append(claims, r.added)
           /\ predictionAnnotations' =
                IF r.added \cap (0..(Len(predictionAnnotations) - 1)) # {}
                THEN RemoveAt(predictionAnnotations, CHOOSE i \in r.added : TRUE)
                ELSE predictionAnnotations
    /\ gtPos' = gtPos + 1
    /\ pc' = IF gtPos = Len(groundTruthAnnotations) THEN "predictions" ELSE "groundTruth"
    /\ UNCHANGED <<groundTruthAnnotations, iouThreshold>>
    /\ UNCHANGED notEvalVars

\* lines 82-104, one ground-truth box
ProcessGroundTruth ==
    /\ pc = "groundTruth"
    /\ gtPos <= Len(groundTruthAnnotations)
    /\ LET r == ProcessGtBox(metrics, matchedPredIndices, groundTruthAnnotations[gtPos],
                             predictionAnnotations, iouThreshold)
       IN  /\ metrics' = r.metrics
           /\ matchedPredIndices' = r.matched
           /\ claims' = Append(claims, r.added)
    /\ gtPos' = gtPos + 1
    /\ pc' = IF gtPos = Len(groundTruthAnnotations) THEN "predictions" ELSE "groundTruth"
    /\ UNCHANGED <<groundTruthAnnotations, predictionAnnotations, iouThreshold>>
    /\ UNCHANGED notEvalVars

\* lines 106-111
CountUnmatched ==
    /\ pc = "predictions"
    /\ metrics' = CountFalsePositives(metrics, predictionAnnotations, matchedPredIndices, 0)
    /\ pc' = "rates"
    /\ UNCHANGED <<groundTruthAnnotations, predictionAnnotations, iouThreshold,
                   matchedPredIndices, gtPos, claims>>
    /\ UNCHANGED notEvalVars

\* lines 113-127
ComputeRates ==
    /\ pc = "rates"
    /\ metrics' = [l \in labels |-> DeriveRates(metrics[l])]
    /\ pc' = "done"
    /\ UNCHANGED <<groundTruthAnnotations, predictionAnnotations, iouThreshold,
                   matchedPredIndices, gtPos, claims>>
    /\ UNCHANGED notEvalVars

Next ==
    \/ InitMetrics
    \/ ProcessGroundTruth
    \/ CountUnmatched
    \/ ComputeRates

Spec == Init /\ [][Next]_vars

----------------------------------------------------------------------------
(* One direct call of calculateIoU *)

InitIoU ==
    /\ box1 \in Boxes
    /\ box2 \in Boxes
    /\ iouResult = Zero
    /\ iouPc = "call"
    /\ groundTruthAnnotations = <<>>
    /\ predictionAnnotations = <<>>
    /\ iouThreshold = Rat(1, 2)
    /\ metrics = EmptyMetrics
    /\ matchedPredIndices = {}
    /\ gtPos = 1
    /\ claims = <<>>
    /\ pc = "idle"
    /\ calls = <<>>
    /\ NoWebhookTraffic
    /\ NoPageOpen

CallIoU ==
    /\ iouPc = "call"
    /\ iouResult' = calculateIoU(box1, box2)
    /\ iouPc' = "returned"
    /\ UNCHANGED <<box1, box2>>
    /\ UNCHANGED notIoUVars

NextIoU == CallIoU

SpecIoU == InitIoU /\ [][NextIoU]_vars

----------------------------------------------------------------------------
(* Several calls of evaluateSingleImage, their steps interleaved *)

CallIds == {1, 2}

\* the boxes the interleaved calls evaluate
CallAnnotations ==
    { Annotation(0, 0, 2, 2, "Button"), Annotation(0, 0, 2, 1, "Button") }

CallThresholds == { Rat(1, 3), Rat(1, 2) }

\* the frame of a call on entry: its three arguments and nothing else yet
NewFrame(gt, preds, threshold) ==
    [groundTruthAnnotations |-> gt, predictionAnnotations |-> preds,
     iouThreshold |-> threshold, metrics |-> EmptyMetrics,
     matchedPredIndices |-> {}, gtPos |-> 1, pc |-> "start"]

\* a claimed set that all calls share
MatchedOf_Shared(c) == UNION { calls[d].matchedPredIndices : d \in DOMAIN calls }

\* the claimed set a call reads: the one it created itself at line 80
MatchedOf(c) == calls[c].matchedPredIndices

InitCalls ==
    /\ calls \in [CallIds -> { NewFrame(gt, preds, t) :
                                 gt \in SeqsUpTo(CallAnnotations, MaxGT - 1),
                                 preds \in SeqsUpTo(CallAnnotations, MaxPred - 1),
                                 t \in CallThresholds }]
    /\ groundTruthAnnotations = <<>>
    /\ predictionAnnotations = <<>>
    /\ iouThreshold = Rat(1, 2)
    /\ metrics = EmptyMetrics
    /\ matchedPredIndices = {}
    /\ gtPos = 1
    /\ claims = <<>>
    /\ pc = "idle"
    /\ box1 = [x |-> 0, y |-> 0, width |-> 0, height |-> 0]
    /\ box2 = [x |-> 0, y |-> 0, width |-> 0, height |-> 0]
    /\ iouResult = Zero
    /\ iouPc = "idle"
    /\ NoWebhookTraffic
    /\ NoPageOpen

\* lines 65-80 of call c
CallInitMetrics(c) ==
    /\ calls[c].pc = "start"
    /\ calls' = [calls EXCEPT
                   ![c].metrics = InitialMetrics,
                   ![c].matchedPredIndices = {},
                   ![c].pc = IF Len(calls[c].groundTruthAnnotations) = 0
                             THEN "predictions" ELSE "groundTruth"]
    /\ UNCHANGED notCallVars

\* lines 82-104 of call c, one ground-truth box
CallProcessGroundTruth(c) ==
    /\ calls[c].pc = "groundTruth"
    /\ calls[c].gtPos <= Len(calls[c].groundTruthAnnotations)
    /\ LET f == calls[c]
           r == ProcessGtBox(f.metrics, MatchedOf(c), f.groundTruthAnnotations[f.gtPos],
                             f.predictionAnnotations, f.iouThreshold)
       IN  calls' = [calls EXCEPT
                       ![c].metrics = r.metrics,
                       ![c].matchedPredIndices = r.matched,
                       ![c].gtPos = f.gtPos + 1,
                       ![c].pc = IF f.gtPos = Len(f.groundTruthAnnotations)
                                 THEN "predictions" ELSE "groundTruth"]
    /\ UNCHANGED notCallVars

\* lines 106-111 of call c
CallCountUnmatched(c) ==
    /\ calls[c].pc = "predictions"
    /\ calls' = [calls EXCEPT
                   ![c].metrics = CountFalsePositives(calls[c].metrics,
                                                      calls[c].predictionAnnotations,
                                                      MatchedOf(c), 0),
                   ![c].pc = "rates"]
    /\ UNCHANGED notCallVars

\* lines 113-127 of call c
CallComputeRates(c) ==
    /\ calls[c].pc = "rates"
    /\ calls' = [calls EXCEPT
                   ![c].metrics = [l \in labels |-> DeriveRates(calls[c].metrics[l])],
                   ![c].pc = "done"]
    /\ UNCHANGED notCallVars

NextCalls ==
    \E c \in CallIds :
        \/ CallInitMetrics(c)
        \/ CallProcessGroundTruth(c)
        \/ CallCountUnmatched(c)
        \/ CallComputeRates(c)

SpecCalls == InitCalls /\ [][NextCalls]_vars

SameInputs(f, g) ==
    /\ f.groundTruthAnnotations = g.groundTruthAnnotations
    /\ f.predictionAnnotations = g.predictionAnnotations
    /\ f.iouThreshold = g.iouThreshold

\* C14: evaluateSingleImage is a pure function of its three arguments: two calls
\* with equal arguments return equal results, and every call returns what an
\* evaluation of its arguments alone returns, whatever other calls ran before it
\* or are interleaved with it.
C14_Pure ==
    /\ \A c, d \in CallIds :
         (calls[c].pc = "done" /\ calls[d].pc = "done" /\ SameInputs(calls[c], calls[d]))
         => calls[c].metrics = calls[d].metrics
    /\ \A c \in CallIds :
         calls[c].pc = "done"
         => calls[c].metrics = EvaluateSingleImage(calls[c].groundTruthAnnotations,
                                                   calls[c].predictionAnnotations,
                                                   calls[c].iouThreshold)

\* two calls with equal arguments have returned, each having claimed a prediction
C14_Witness ==
    /\ calls[1].pc = "done"
    /\ calls[2].pc = "done"
    /\ SameInputs(calls[1], calls[2])
    /\ calls[1].matchedPredIndices = {0}
    /\ calls[2].matchedPredIndices = {0}
    /\ calls[1].metrics["Button"].true_positives = 1

----------------------------------------------------------------------------
(* One call of evaluateSingleImage on boxes whose label may lie outside the    *)
(* fixed set. metrics is a plain object ({} at line 66): metrics[key] is the    *)
(* entry when key is an own property, the inherited member when key names a     *)
(* member of Object.prototype, and undefined otherwise; reading a property of   *)
(* undefined throws a TypeError, a counter incremented on an inherited member   *)
(* lands on that member and not in metrics.                                     *)

\* names every plain object inherits from Object.prototype
ObjectPrototypeKeys ==
    { "constructor", "toString", "valueOf", "hasOwnProperty", "__proto__" }

\* what metrics[key] evaluates to
Lookup(m, key) ==
    IF key \in DOMAIN m THEN "own"
    ELSE IF key \in ObjectPrototypeKeys THEN "inherited"
    ELSE "undefined"

\* labels of the boxes of this call
AnyLabels == { "Button", "Other", "constructor" }

AnyAnnotations == { Annotation(0, 0, 2, 2, l) : l \in AnyLabels }

\* the loop of lines 106-111 from index i on; threw is TRUE when line 109 throws
RECURSIVE CountFalsePositivesAnyLabel(_, _, _, _)
CountFalsePositivesAnyLabel(m, preds, matched, i) ==
    IF i >= Len(preds)
    THEN [metrics |-> m, threw |-> FALSE]
    ELSE IF i \in matched
         THEN CountFalsePositivesAnyLabel(m, preds, matched, i + 1)
         ELSE LET found == Lookup(m, preds[i + 1].label)
              IN  IF found = "undefined"
                  THEN [metrics |-> m, threw |-> TRUE]
                  ELSE IF found = "inherited"
                       THEN CountFalsePositivesAnyLabel(m, preds, matched, i + 1)
                       ELSE CountFalsePositivesAnyLabel(
                                [m EXCEPT ![preds[i + 1].label].false_positives = @ + 1],
                                preds, matched, i + 1)

InitAnyLabel ==
    /\ groundTruthAnnotations \in SeqsUpTo(AnyAnnotations, MaxGT)
    /\ predictionAnnotations \in SeqsUpTo(AnyAnnotations, MaxPred)
    /\ iouThreshold = Rat(1, 2)
    /\ metrics = EmptyMetrics
    /\ matchedPredIndices = {}
    /\ gtPos = 1
    /\ claims = <<>>
    /\ pc = "start"
    /\ box1 = [x |-> 0, y |-> 0, width |-> 0, height |-> 0]
    /\ box2 = [x |-> 0, y |-> 0, width |-> 0, height |-> 0]
    /\ iouResult = Zero
    /\ iouPc = "idle"
    /\ calls = <<>>
    /\ NoWebhookTraffic
    /\ NoPageOpen

\* lines 82-104, one ground-truth box whose label is an entry of metrics
ProcessKnownGroundTruth ==
    /\ pc = "groundTruth"
    /\ gtPos <= Len(groundTruthAnnotations)
    /\ Lookup(metrics, groundTruthAnnotations[gtPos].label) = "own"
    /\ ProcessGroundTruth

\* line 83 throws: metrics[gtBox.label] is undefined
ThrowOnGroundTruth ==
    /\ pc = "groundTruth"
    /\ gtPos <= Len(groundTruthAnnotations)
    /\ Lookup(metrics, groundTruthAnnotations[gtPos].label) = "undefined"
    /\ pc' = "error"
    /\ UNCHANGED <<groundTruthAnnotations, predictionAnnotations, iouThreshold, metrics,
                   matchedPredIndices, gtPos, claims>>
    /\ UNCHANGED notEvalVars

\* lines 82-104 for a label that names an inherited member: the counters land on
\* that member, the claimed set is updated as usual
ProcessInheritedGroundTruth ==
    /\ pc = "groundTruth"
    /\ gtPos <= Len(groundTruthAnnotations)
    /\ Lookup(metrics, groundTruthAnnotations[gtPos].label) = "inherited"
    /\ LET best == BestMatch(groundTruthAnnotations[gtPos], predictionAnnotations,
                             matchedPredIndices)
       IN  IF IsMatch(best, iouThreshold)
           THEN /\ matchedPredIndices' = matchedPredIndices \cup {best.bestPredIndex}
                /\ claims' = Append(claims, {best.bestPredIndex})
           ELSE /\ matchedPredIndices' = matchedPredIndices
                /\ claims' = Append(claims, {})
    /\ gtPos' = gtPos + 1
    /\ pc' = IF gtPos = Len(groundTruthAnnotations) THEN "predictions" ELSE "groundTruth"
    /\ UNCHANGED <<groundTruthAnnotations, predictionAnnotations, iouThreshold, metrics>>
    /\ UNCHANGED notEvalVars

\* lines 106-111, which throw at the first unclaimed prediction whose label is
\* neither an entry nor an inherited member
CountUnmatchedAnyLabel ==
    /\ pc = "predictions"
    /\ LET r == CountFalsePositivesAnyLabel(metrics, predictionAnnotations,
                                            matchedPredIndices, 0)
       IN  /\ metrics' = r.metrics
           /\ pc' = IF r.threw THEN "error" ELSE "rates"
    /\ UNCHANGED <<groundTruthAnnotations, predictionAnnotations, iouThreshold,
                   matchedPredIndices, gtPos, claims>>
    /\ UNCHANGED notEvalVars

NextAnyLabel ==
    \/ InitMetrics
    \/ ProcessKnownGroundTruth
    \/ ThrowOnGroundTruth
    \/ ProcessInheritedGroundTruth
    \/ CountUnmatchedAnyLabel
    \/ ComputeRates

SpecAnyLabel == InitAnyLabel /\ [][NextAnyLabel]_vars

\* the prediction indices of the call, 0-based
PredIndices == 0..(Len(predictionAnnotations) - 1)

\* some box of the call carries a label outside the fixed set
HasForeignLabel ==
    \/ \E g \in 1..Len(groundTruthAnnotations) : groundTruthAnnotations[g].label \notin labels
    \/ \E i \in PredIndices : predictionAnnotations[i + 1].label \notin labels

\* C15: the four label entries are initialised before the first box is counted,
\* and a box whose label is outside the fixed set makes the evaluation end in an
\* error: it never returns metrics.
C15_ForeignLabelFails ==
    /\ (pc = "groundTruth" /\ gtPos = 1) => metrics = InitialMetrics
    /\ pc \notin {"start", "error"} => DOMAIN metrics = labels
    /\ HasForeignLabel => pc # "done"

----------------------------------------------------------------------------
(* One call of evaluateSingleImage on boxes of screenshot size *)

\* a Button box, an Input square, the square shifted by 90 pixels on both axes,
\* and the upper half of the square
ScenarioAnnotations ==
    { Annotation(0, 0, 100, 50, "Button"),
      Annotation(0, 0, 100, 100, "Input"),
      Annotation(90, 90, 100, 100, "Input"),
      Annotation(0, 0, 100, 50, "Input") }

\* thresholds of these calls: 0, the default 1/2, and 1
ScenarioThresholds == { Zero, Rat(1, 2), One }

InitScenario ==
    /\ groundTruthAnnotations \in SeqsUpTo(ScenarioAnnotations, MaxGT)
    /\ predictionAnnotations \in SeqsUpTo(ScenarioAnnotations, MaxPred)
    /\ iouThreshold \in ScenarioThresholds
    /\ metrics = EmptyMetrics
    /\ matchedPredIndices = {}
    /\ gtPos = 1
    /\ claims = <<>>
    /\ pc = "start"
    /\ box1 = [x |-> 0, y |-> 0, width |-> 0, height |-> 0]
    /\ box2 = [x |-> 0, y |-> 0, width |-> 0, height |-> 0]
    /\ iouResult = Zero
    /\ iouPc = "idle"
    /\ calls = <<>>
    /\ NoWebhookTraffic
    /\ NoPageOpen

SpecScenario == InitScenario /\ [][Next]_vars

----------------------------------------------------------------------------
(* Properties of evaluateSingleImage *)

\* number of boxes of a sequence carrying label l
CountLabel(boxes, l) == Cardinality({ k \in 1..Len(boxes) : boxes[k].label = l })

SameGeometry(a, b) ==
    a.x = b.x /\ a.y = b.y /\ a.width = b.width /\ a.height = b.height

\* C1: matching is one-to-one: no prediction index is claimed by two different
\* ground-truth boxes, and no ground-truth box claims more than one prediction index.
C1_OneToOne ==
    /\ \A g, h \in 1..Len(claims) :
         \A i \in PredIndices : (i \in claims[g] /\ i \in claims[h]) => g = h
    /\ \A g \in 1..Len(claims) : Cardinality(claims[g] \cap PredIndices) <= 1

\* two ground-truth boxes of one label have each claimed a prediction
C1_Witness ==
    /\ pc = "done"
    /\ Len(claims) = 2
    /\ groundTruthAnnotations[1].label = groundTruthAnnotations[2].label
    /\ claims[1] = {0}
    /\ claims[2] = {1}

\* C2: in the returned metrics, for every label, total_ground_truth equals
\* true_positives + false_negatives and equals the number of ground-truth boxes
\* carrying the label.
C2_GroundTruthCount ==
    pc = "done" =>
        \A l \in labels :
            /\ metrics[l].total_ground_truth
                 = metrics[l].true_positives + metrics[l].false_negatives
            /\ metrics[l].total_ground_truth = CountLabel(groundTruthAnnotations, l)

\* a label has both a matched and an unmatched ground-truth box
C2_Witness ==
    /\ pc = "done"
    /\ \E l \in labels : metrics[l].true_positives = 1 /\ metrics[l].false_negatives = 1

\* C3: in the returned metrics, for every label and every threshold, the number of
\* predictions carrying the label equals true_positives + false_positives.
C3_PredictionCount ==
    pc = "done" =>
        \A l \in labels :
            CountLabel(predictionAnnotations, l)
              = metrics[l].true_positives + metrics[l].false_positives

\* C8: with an empty prediction sequence, for any threshold, every label with a
\* ground-truth box gets precision = recall = f1_score = 0 and
\* false_negatives = total_ground_truth.
C8_EmptyPredictions ==
    (pc = "done" /\ predictionAnnotations = <<>>) =>
        \A l \in labels :
            metrics[l].total_ground_truth > 0 =>
                /\ metrics[l].precision = Zero
                /\ metrics[l].recall = Zero
                /\ metrics[l].f1_score = Zero
                /\ metrics[l].false_negatives = metrics[l].total_ground_truth

\* C9: the returned result has exactly one entry for each of Button, Input, Radio
\* and Drop, and the entry of a label that occurs in neither input is all zero.
C9_AllLabels ==
    pc = "done" =>
        /\ DOMAIN metrics = {"Button", "Input", "Radio", "Drop"}
        /\ \A l \in DOMAIN metrics :
             (CountLabel(groundTruthAnnotations, l) = 0
                /\ CountLabel(predictionAnnotations, l) = 0)
             => /\ metrics[l].total_ground_truth = 0
                /\ metrics[l].true_positives = 0
                /\ metrics[l].false_positives = 0
                /\ metrics[l].false_negatives = 0
                /\ metrics[l].precision = Zero
                /\ metrics[l].recall = Zero
                /\ metrics[l].f1_score = Zero

\* a result in which one label was scored and another occurs in neither input
C9_Witness ==
    /\ pc = "done"
    /\ metrics["Button"].true_positives = 1
    /\ CountLabel(groundTruthAnnotations, "Input") = 0
    /\ CountLabel(predictionAnnotations, "Input") = 0

\* C10: one ground-truth box and one prediction of identical geometry but different
\* labels are not matched: the ground-truth box is a false negative of its label
\* and the prediction a false positive of its label.
C10_LabelMismatch ==
    ( /\ pc = "done"
      /\ Len(groundTruthAnnotations) = 1
      /\ Len(predictionAnnotations) = 1
      /\ SameGeometry(groundTruthAnnotations[1], predictionAnnotations[1])
      /\ groundTruthAnnotations[1].label # predictionAnnotations[1].label )
    => /\ 0 \notin claims[1]
       /\ metrics[groundTruthAnnotations[1].label].false_negatives = 1
       /\ metrics[groundTruthAnnotations[1].label].true_positives = 0
       /\ metrics[predictionAnnotations[1].label].false_positives = 1

\* the ground-truth positions processed so far
Processed == 1..Len(claims)

\* the indices added to the claimed set before ground-truth position g
ClaimedBefore(g) == UNION { claims[h] : h \in 1..(g - 1) }

\* the same-label predictions no earlier ground-truth box has claimed
Candidates(g) ==
    LET before == ClaimedBefore(g)
    IN  { i \in PredIndices :
            /\ predictionAnnotations[i + 1].label = groundTruthAnnotations[g].label
            /\ i \notin before }

IoUOf(g, i) == calculateIoU(groundTruthAnnotations[g], predictionAnnotations[i + 1])

\* the candidates of g whose IoU no other candidate exceeds
Greatest(g) ==
    LET cands == Candidates(g)
    IN  { i \in cands : \A j \in cands : RatLE(IoUOf(g, j), IoUOf(g, i)) }

SmallestOf(S) == CHOOSE i \in S : \A j \in S : i <= j

\* C11: when several unclaimed same-label predictions share the greatest IoU with
\* the current ground-truth box and that IoU reaches the threshold, the one with
\* the smallest index is claimed; with one ground-truth box and two tied
\* predictions the later one ends as a false positive.
C11_TieBreak ==
    /\ \A g \in Processed :
         ( /\ Cardinality(Greatest(g)) >= 2
           /\ \E i \in Greatest(g) : RatLE(iouThreshold, IoUOf(g, i)) )
         => claims[g] = {SmallestOf(Greatest(g))}
    /\ ( /\ pc = "done"
         /\ Len(groundTruthAnnotations) = 1
         /\ Len(predictionAnnotations) = 2
         /\ Greatest(1) = {0, 1}
         /\ RatLE(iouThreshold, IoUOf(1, 0)) )
       => /\ 1 \notin matchedPredIndices
          /\ metrics[predictionAnnotations[2].label].false_positives >= 1

\* C16: a ground-truth box without an unclaimed same-label prediction is recorded
\* as a false negative and claims nothing, for every threshold.
C16_NoCandidate ==
    \A g \in Processed : Candidates(g) = {} => claims[g] = {}

\* C17: every recorded true positive claims an actual prediction: the index added
\* is a valid prediction index, the prediction has the ground-truth box's label and
\* an IoU with it that reaches the threshold, and true_positives never exceeds the
\* number of predictions of the label.
C17_TruePositiveClaims ==
    /\ \A g \in Processed :
         \A i \in claims[g] :
            /\ i \in PredIndices
            /\ predictionAnnotations[i + 1].label = groundTruthAnnotations[g].label
            /\ RatLE(iouThreshold, IoUOf(g, i))
    /\ pc # "start" =>
         \A l \in labels :
            metrics[l].true_positives <= CountLabel(predictionAnnotations, l)

\* C18: ground-truth boxes are processed in input order (one claim record per
\* position, in order); when the call returns, every box that claimed a prediction
\* claimed, among the same-label predictions not claimed by an earlier box, one of
\* greatest IoU, and no later box claimed that prediction again, even one that
\* overlaps it more.
C18_GreedyOrder ==
    /\ Len(claims) = gtPos - 1
    /\ pc = "done" =>
         \A g \in Processed :
            LET top == Greatest(g)
            IN  \A i \in claims[g] \cap PredIndices :
                   /\ i \in top
                   /\ \A h \in Processed : h > g => i \notin claims[h]

\* the second ground-truth box overlaps the prediction claimed by the first more
\* than the prediction it is left with
C18_Witness ==
    /\ pc = "done"
    /\ Len(claims) = 2
    /\ claims[1] = {0}
    /\ claims[2] = {1}
    /\ RatLT(IoUOf(2, 1), IoUOf(2, 0))

\* C19: after the ground truth is processed, every unclaimed prediction index adds
\* exactly one false positive to its own label and no claimed one adds any.
C19_FalsePositives ==
    pc \in {"rates", "done"} =>
        \A l \in labels :
            metrics[l].false_positives
              = Cardinality({ i \in PredIndices :
                                /\ i \notin matchedPredIndices
                                /\ predictionAnnotations[i + 1].label = l })

\* one prediction was claimed and one of the same label was not
C19_Witness ==
    /\ pc = "done"
    /\ Len(predictionAnnotations) = 2
    /\ predictionAnnotations[1].label = predictionAnnotations[2].label
    /\ matchedPredIndices = {0}
    /\ metrics[predictionAnnotations[2].label].false_positives = 1

\* a rate is a defined number between 0 and 1
IsUnitRate(r) == r.d > 0 /\ RatLE(Zero, r) /\ RatLE(r, One)

\* C12: the returned rates of every label are derived from its final counts:
\* precision = tp/(tp+fp) if tp+fp > 0 else 0, recall = tp/(tp+fn) if tp+fn > 0
\* else 0, f1_score = 2*precision*recall/(precision+recall) if
\* precision+recall > 0 else 0, from the precision and recall already computed.
C12_Rates ==
    pc = "done" =>
        \A l \in labels :
            LET tp == metrics[l].true_positives
                fp == metrics[l].false_positives
                fn == metrics[l].false_negatives
                p == metrics[l].precision
                r == metrics[l].recall
                f == metrics[l].f1_score
            IN  /\ IF tp + fp > 0 THEN p.n * (tp + fp) = tp * p.d ELSE p.n = 0
                /\ IF tp + fn > 0 THEN r.n * (tp + fn) = tp * r.d ELSE r.n = 0
                /\ IF p.n * r.d + r.n * p.d > 0
                   THEN f.n * (p.n * r.d + r.n * p.d) * (p.d * r.d)
                          = 2 * p.n * r.n * (p.d * r.d) * f.d
                   ELSE f.n = 0

\* a label with precision 1/2 and recall 1, hence f1_score 2/3
C12_Witness ==
    /\ pc = "done"
    /\ \E l \in labels :
         /\ metrics[l].precision = Rat(1, 2)
         /\ metrics[l].recall = One
         /\ metrics[l].f1_score = Rat(2, 3)

\* C13: precision, recall and f1_score of every label are defined numbers within
\* [0, 1]; a zero denominator (union area, tp+fp, tp+fn, precision+recall) yields 0.
C13_RatesInUnitInterval ==
    /\ pc = "done" =>
         \A l \in labels :
            /\ IsUnitRate(metrics[l].precision)
            /\ IsUnitRate(metrics[l].recall)
            /\ IsUnitRate(metrics[l].f1_score)
            /\ metrics[l].true_positives + metrics[l].false_positives = 0
                 => metrics[l].precision = Zero
            /\ metrics[l].true_positives + metrics[l].false_negatives = 0
                 => metrics[l].recall = Zero
            /\ RatAdd(metrics[l].precision, metrics[l].recall) = Zero
                 => metrics[l].f1_score = Zero
    /\ pc = "done" =>
         \A g \in 1..Len(groundTruthAnnotations) :
            \A i \in PredIndices :
               LET iou == IoUOf(g, i)
               IN  /\ IsUnitRate(iou)
                   /\ union_area(groundTruthAnnotations[g], predictionAnnotations[i + 1]) = 0
                        => iou = Zero

\* a label with ground truth but nothing predicted (tp + fp = 0 and
\* precision + recall = 0), and a pair of boxes whose union area is 0
C13_Witness ==
    /\ pc = "done"
    /\ \E g \in 1..Len(groundTruthAnnotations) :
         \E i \in PredIndices :
            union_area(groundTruthAnnotations[g], predictionAnnotations[i + 1]) = 0
    /\ \E l \in labels :
         /\ metrics[l].true_positives + metrics[l].false_positives = 0
         /\ metrics[l].false_negatives > 0
         /\ metrics[l].precision = Zero
         /\ metrics[l].recall = Zero
         /\ metrics[l].f1_score = Zero

\* the pairs of a ground-truth position and a prediction index that may be
\* matched: same label and an IoU that reaches the threshold
MatchablePairs(gt, preds, threshold) ==
    { pr \in (1..Len(gt)) \X (0..(Len(preds) - 1)) :
        /\ gt[pr[1]].label = preds[pr[2] + 1].label
        /\ RatLE(threshold, calculateIoU(gt[pr[1]], preds[pr[2] + 1])) }

\* the size of a maximum one-to-one matching of such pairs
MaxMatchingSize(gt, preds, threshold) ==
    LET matchings ==
            { M \in SUBSET MatchablePairs(gt, preds, threshold) :
                \A a, b \in M : a # b => (a[1] # b[1] /\ a[2] # b[2]) }
    IN  CHOOSE k \in 0..Len(gt) :
            /\ \E M \in matchings : Cardinality(M) = k
            /\ \A M \in matchings : Cardinality(M) <= k

\* the counts of a label's entry
Counts(entry) ==
    <<entry.total_ground_truth, entry.true_positives,
      entry.false_positives, entry.false_negatives>>

\* two Button ground-truth boxes and two Button predictions: the first box overlaps
\* both predictions enough at threshold 1/3, the second only the first prediction
GreedyGroundTruth ==
    <<Annotation(0, 0, 2, 2, "Button"), Annotation(0, 0, 2, 1, "Button")>>

GreedyPredictions ==
    <<Annotation(0, 0, 2, 2, "Button"), Annotation(1, 0, 2, 2, "Button")>>

IsGreedyScenario ==
    /\ pc = "done"
    /\ groundTruthAnnotations = GreedyGroundTruth
    /\ predictionAnnotations = GreedyPredictions
    /\ iouThreshold = Rat(1, 3)

\* C20: the greedy assignment is not optimal: for two ground-truth boxes and two
\* predictions of one label it reports fewer true positives than the size of a
\* maximum one-to-one matching, and the reversed ground-truth sequence gives
\* other counts.
C20_GreedyNotOptimal ==
    IsGreedyScenario =>
        /\ metrics["Button"].true_positives = 1
        /\ metrics["Button"].true_positives
             < MaxMatchingSize(groundTruthAnnotations, predictionAnnotations, iouThreshold)
        /\ Counts(EvaluateSingleImage(<<groundTruthAnnotations[2], groundTruthAnnotations[1]>>,
                                      predictionAnnotations, iouThreshold)["Button"])
             # Counts(metrics["Button"])

\* the evaluation of the scenario has returned
C20_Witness ==
    /\ IsGreedyScenario
    /\ metrics["Button"].false_negatives = 1
    /\ MaxMatchingSize(groundTruthAnnotations, predictionAnnotations, iouThreshold) = 2

\* every box of the sequence has positive width and height
AllWellFormed(boxes) ==
    \A k \in 1..Len(boxes) : boxes[k].width > 0 /\ boxes[k].height > 0

C22_BelowThresholdStaysUnclaimed ==
    pc = "done" =>
        \A g \in Processed :
           LET top == Greatest(g)
           IN  (top # {} /\ RatLT(IoUOf(g, SmallestOf(top)), iouThreshold))
               => /\ claims[g] = {}
                  /\ SmallestOf(top) \notin matchedPredIndices

\* C22 amended: a ground-truth box whose best unclaimed same-label prediction has
\* an IoU strictly below the threshold is a false negative and does not claim the
\* prediction, which ends as a false positive when no later box claims it (always
\* when the box is the only one); an IoU equal to the threshold is recorded as a
\* true positive; ground truth {0,0,100,100,Input} against prediction
\* {90,90,100,100,Input} at threshold 1/2 gives Input tp = 0, fp = 1, fn = 1 and
\* precision = recall = f1_score = 0.
C22_Threshold ==
    /\ pc = "done" =>
         \A g \in Processed :
            LET top == Greatest(g)
            IN  top # {} =>
                   LET best == IoUOf(g, SmallestOf(top))
                   IN  /\ RatLT(best, iouThreshold) =>
                          /\ claims[g] = {}
                          /\ (\A h \in Processed : SmallestOf(top) \notin claims[h])
                               => metrics[groundTruthAnnotations[g].label].false_positives >= 1
                       /\ best = iouThreshold =>
                          /\ claims[g] # {}
                          /\ RatLT(Zero, iouThreshold) => claims[g] = {SmallestOf(top)}
    /\ ( /\ pc = "done"
         /\ Len(groundTruthAnnotations) = 1
         /\ Len(predictionAnnotations) = 1
         /\ groundTruthAnnotations[1].label = predictionAnnotations[1].label
         /\ RatLT(IoUOf(1, 0), iouThreshold) )
       => /\ metrics[groundTruthAnnotations[1].label].false_negatives = 1
          /\ metrics[groundTruthAnnotations[1].label].false_positives = 1
          /\ matchedPredIndices = {}
    /\ ( /\ pc = "done"
         /\ groundTruthAnnotations = <<Annotation(0, 0, 100, 100, "Input")>>
         /\ predictionAnnotations = <<Annotation(90, 90, 100, 100, "Input")>>
         /\ iouThreshold = Rat(1, 2) )
       => /\ metrics["Input"].true_positives = 0
          /\ metrics["Input"].false_positives = 1
          /\ metrics["Input"].false_negatives = 1
          /\ metrics["Input"].precision = Zero
          /\ metrics["Input"].recall = Zero
          /\ metrics["Input"].f1_score = Zero

\* the below-threshold scenario has returned
C22_Witness ==
    /\ pc = "done"
    /\ groundTruthAnnotations = <<Annotation(0, 0, 100, 100, "Input")>>
    /\ predictionAnnotations = <<Annotation(90, 90, 100, 100, "Input")>>
    /\ iouThreshold = Rat(1, 2)
    /\ metrics["Input"].false_positives = 1
    /\ metrics["Input"].false_negatives = 1

\* C23: an evaluation leaves its arguments unchanged: no step changes the length,
\* the order or a box of the ground-truth or the prediction sequence, or the
\* threshold; the steps write only the metrics object, the claimed set and the
\* position of the loops.
C23_InputsUnchanged ==
    [][ /\ groundTruthAnnotations' = groundTruthAnnotations
        /\ predictionAnnotations' = predictionAnnotations
        /\ iouThreshold' = iouThreshold ]_vars

\* a call that claimed a prediction and counted a false positive has returned
C23_Witness ==
    /\ pc = "done"
    /\ Len(groundTruthAnnotations) = 2
    /\ Len(predictionAnnotations) = 2
    /\ matchedPredIndices = {1}
    /\ metrics[predictionAnnotations[1].label].false_positives = 1

\* the boxes of a sequence that carry label l, in their order
RECURSIVE WithLabel(_, _)
WithLabel(boxes, l) ==
    IF boxes = <<>>
    THEN <<>>
    ELSE IF Head(boxes).label = l
         THEN <<Head(boxes)>> \o WithLabel(Tail(boxes), l)
         ELSE WithLabel(Tail(boxes), l)

\* C24: the entry of a label depends only on the ground-truth boxes and the
\* predictions that carry the label: it equals the entry returned for the two
\* sequences with all boxes of other labels removed.
C24_LabelIndependence ==
    pc = "done" =>
        \A l \in labels :
            metrics[l] = EvaluateSingleImage(WithLabel(groundTruthAnnotations, l),
                                             WithLabel(predictionAnnotations, l),
                                             iouThreshold)[l]

\* a Button box was matched while an Input prediction of the same geometry
\* precedes the Button prediction
C24_Witness ==
    /\ pc = "done"
    /\ Len(predictionAnnotations) = 2
    /\ predictionAnnotations[1].label = "Input"
    /\ predictionAnnotations[2].label = "Button"
    /\ SameGeometry(predictionAnnotations[1], predictionAnnotations[2])
    /\ metrics["Button"].true_positives = 1
    /\ matchedPredIndices = {1}

----------------------------------------------------------------------------
(* Properties of calculateIoU *)

\* the intervals of the two boxes on the x-axis share no interior point
NoOverlapX(a, b) == a.x + a.width <= b.x \/ b.x + b.width <= a.x

\* the intervals of the two boxes on the y-axis share no interior point
NoOverlapY(a, b) == a.y + a.height <= b.y \/ b.y + b.height <= a.y

C5_Symmetry ==
    iouPc = "returned" => iouResult = calculateIoU(box2, box1)

\* boxes at different places and of different sizes that overlap
C5_Witness ==
    /\ iouPc = "returned"
    /\ box1.x # box2.x
    /\ box1.width # box2.width
    /\ RatLT(Zero, iouResult)

C7_Disjoint ==
    iouPc = "returned" =>
        /\ (NoOverlapX(box1, box2) \/ NoOverlapY(box1, box2)) => iouResult = Zero
        /\ intersection_area(box1, box2) >= 0

\* two well-formed boxes that share an edge
C7_Witness ==
    /\ iouPc = "returned"
    /\ box1.width > 0 /\ box1.height > 0 /\ box2.width > 0 /\ box2.height > 0
    /\ box1.x + box1.width = box2.x
    /\ box1.y = box2.y
    /\ iouResult = Zero

----------------------------------------------------------------------------
(* The webhook route: POST broadcasts to the SSE streams opened by GET *)

\* line 8: the SSE event built from the body of POST request p
Payload(p) == [kind |-> "data", image_id |-> p]

\* line 23: the keep-alive comment
KeepAliveComment == [kind |-> "comment", image_id |-> 0]

\* line 19, send of the client of stream k: controller.enqueue, which throws
\* on a stream that has been cancelled
CanEnqueue(st, k) == st[k].state = "open"

\* line 9, clients.forEach(client => client.send(payload)) from client i on:
\* a send that throws ends the loop
RECURSIVE SendAll(_, _, _, _)
SendAll(st, cs, i, msg) ==
    IF i > Len(cs) THEN st
    ELSE LET k == cs[i].stream
         IN  IF CanEnqueue(st, k)
             THEN SendAll([st EXCEPT ![k].received = Append(@, msg)], cs, i + 1, msg)
             ELSE st

\* a cancel that leaves the registry as it is
Unregister_Keep(cs, id) == cs

\* line 28: clients.filter(c => c.id !== id)
Unregister(cs, id) == SelectSeq(cs, LAMBDA c : c.id # id)

InitWebhook ==
    /\ NoWebhookTraffic
    /\ NoPageOpen
    /\ NoEvaluation

\* lines 13-25 and 32-38: GET creates a stream, whose start registers a
\* client under the next id and starts its keep-alive interval
GET ==
    /\ Len(streams) < MaxStreams
    /\ clientId' = clientId + 1
    /\ clients' = Append(clients, [id |-> clientId, stream |-> Len(streams) + 1])
    /\ streams' = Append(streams, [id |-> clientId, state |-> "open",
                                   keepAlive |-> TRUE, received |-> <<>>])
    /\ UNCHANGED <<requests, posted, ticks>>
    /\ UNCHANGED notSseVars

\* lines 26-29: the consumer of stream k goes away
Cancel(k) ==
    /\ streams[k].state = "open"
    /\ streams' = [streams EXCEPT ![k].state = "cancelled", ![k].keepAlive = FALSE]
    /\ clients' = Unregister(clients, streams[k].id)
    /\ UNCHANGED <<clientId, requests, posted, ticks>>
    /\ UNCHANGED notSseVars

\* lines 22-24: the interval of stream k fires
KeepAlive(k) ==
    /\ streams[k].keepAlive
    /\ ticks < MaxTicks
    /\ ticks' = ticks + 1
    /\ streams' = IF CanEnqueue(streams, k)
                  THEN [streams EXCEPT ![k].received = Append(@, KeepAliveComment)]
                  ELSE streams
    /\ UNCHANGED <<clients, clientId, requests, posted>>
    /\ UNCHANGED notSseVars

\* lines 6-7: a POST request arrives and waits for its body
PostReceive ==
    /\ posted < MaxPosts
    /\ posted' = posted + 1
    /\ requests' = requests \cup {posted + 1}
    /\ UNCHANGED <<clients, clientId, streams, ticks>>
    /\ UNCHANGED notSseVars

\* lines 8-10: the body of request p has been read; broadcast and respond
PostSend(p) ==
    /\ p \in requests
    /\ streams' = SendAll(streams, clients, 1, Payload(p))
    /\ requests' = requests \ {p}
    /\ UNCHANGED <<clients, clientId, posted, ticks>>
    /\ UNCHANGED notSseVars

NextWebhook ==
    \/ GET
    \/ \E k \in DOMAIN streams : Cancel(k)
    \/ \E k \in DOMAIN streams : KeepAlive(k)
    \/ PostReceive
    \/ \E p \in requests : PostSend(p)

SpecWebhook == InitWebhook /\ [][NextWebhook]_vars

\* number of occurrences of msg in a sequence
RECURSIVE Count(_, _)
Count(msgs, msg) ==
    IF msgs = <<>> THEN 0
    ELSE (IF Head(msgs) = msg THEN 1 ELSE 0) + Count(Tail(msgs), msg)

\* the registry holds exactly the streams that are open, each once and under
\* an id of its own, and exactly those streams have a running keep-alive timer
RegistryExact ==
    /\ \A k \in DOMAIN streams :
          /\ Cardinality({ i \in DOMAIN clients : clients[i].stream = k })
                = (IF streams[k].state = "open" THEN 1 ELSE 0)
          /\ streams[k].keepAlive <=> streams[k].state = "open"
    /\ \A i, j \in DOMAIN clients : clients[i].id = clients[j].id => i = j

\* C27: the step that broadcasts the payload of a POST appends it exactly once
\* to every stream that is open and to no cancelled stream, no other step
\* delivers a payload, and after every step (a cancel in particular) the
\* registry holds exactly the open streams under unique ids, with the
\* keep-alive timer of a cancelled stream stopped.
C27_Webhook ==
    [][ /\ \A k \in DOMAIN streams : \A p \in 1..MaxPosts :
              Count(streams'[k].received, Payload(p))
                = Count(streams[k].received, Payload(p))
                  + (IF p \in requests /\ p \notin requests' /\ streams[k].state = "open"
                     THEN 1 ELSE 0)
        /\ RegistryExact' ]_vars

\* the first stream was cancelled between two POSTs, the second stayed open
C27_Witness ==
    /\ Len(streams) >= 2
    /\ posted = 2 /\ requests = {}
    /\ streams[1].state = "cancelled" /\ ~streams[1].keepAlive
    /\ Count(streams[1].received, Payload(1)) = 1
    /\ Count(streams[1].received, Payload(2)) = 0
    /\ streams[2].state = "open"
    /\ Count(streams[2].received, Payload(1)) = 1
    /\ Count(streams[2].received, Payload(2)) = 1
    /\ Len(clients) = 1 /\ clients[1].stream = 2

----------------------------------------------------------------------------
(* The dashboard page: project list, evaluation report, deletion *)

\* a SavedProject
Project(id, name, img, anns, createdAt, updatedAt) ==
    [id |-> id, name |-> name, image |-> img, annotations |-> anns,
     createdAt |-> createdAt, updatedAt |-> updatedAt]

\* annotation lists of the projects stored by earlier sessions
StoredAnnotations ==
    { <<>>, <<Annotation(0, 0, 10, 10, "Button")>>,
      <<Annotation(0, 0, 10, 10, "Button"), Annotation(20, 0, 10, 10, "Input")>> }

\* the projects earlier sessions may have stored, with ids 1..MaxStored
StoredProjects ==
    { Project(i, "stored", "data:image", anns, 0, 0) :
        i \in 1..MaxStored, anns \in StoredAnnotations }

\* the ids of a project list
Ids(projects) == { projects[i].id : i \in DOMAIN projects }

\* project lists as the main page writes them: no id twice
StoredLists ==
    { l \in SeqsUpTo(StoredProjects, MaxStored) : Cardinality(Ids(l)) = Len(l) }

\* what the key may hold when a page is opened
StoredItems == { NoItem, Garbage } \cup { Stringify(l) : l \in StoredLists }

\* lines 137-139: sample offsets of x, from Math.random() * 10 - 5
MockOffsets == { -5, 0 }

\* lines 151-158: a sample of the random false-positive box
MockFalsePositive == Annotation(300, 300, 30, 20, "Drop")

\* lines 131-161: the prediction lists generateMockLLMPredictions can return
RECURSIVE generateMockLLMPredictions(_)
generateMockLLMPredictions(gt) ==
    IF gt = <<>> THEN { <<>> }
    ELSE LET correct == { <<>> } \cup { <<[Head(gt) EXCEPT !.x = @ + dx]>> : dx \in MockOffsets }
             extra == { <<>>, <<MockFalsePositive>> }
         IN  { c \o e \o rest : c \in correct, e \in extra,
                                rest \in generateMockLLMPredictions(Tail(gt)) }

InitDashboard ==
    /\ localStorage \in StoredItems
    /\ savedProjects = <<>>
    /\ selectedProjectResults = NoReport
    /\ mounted = FALSE
    /\ NoWorkspace
    /\ NoWebhookTraffic
    /\ NoEvaluation

\* lines 170-179: the mount effect of the dashboard
DashboardMount ==
    /\ ~mounted
    /\ mounted' = TRUE
    /\ savedProjects' = IF IsTruthyItem(localStorage) /\ Parses(localStorage)
                        THEN Parse(localStorage)
                        ELSE savedProjects
    /\ UNCHANGED <<localStorage, selectedProjectResults>>
    /\ UNCHANGED <<workspaceVars, notPageVars>>

\* lines 181-198: a click on the card of a listed project
handleEvaluateProject(project) ==
    /\ mounted
    /\ \E mockLLMPredictions \in generateMockLLMPredictions(project.annotations) :
          selectedProjectResults' =
              [project |-> project,
               results |-> EvaluateSingleImage(project.annotations, mockLLMPredictions,
                                               Rat(1, 2))]
    /\ UNCHANGED <<localStorage, savedProjects, mounted>>
    /\ UNCHANGED <<workspaceVars, notPageVars>>

\* a deletion that leaves the report on screen
handleDeleteProject_KeepReport(projectId) ==
    /\ mounted
    /\ LET updatedProjects == SelectSeq(savedProjects, LAMBDA p : p.id # projectId)
       IN  /\ savedProjects' = updatedProjects
           /\ localStorage' = Stringify(updatedProjects)
    /\ UNCHANGED <<selectedProjectResults, mounted>>
    /\ UNCHANGED <<workspaceVars, notPageVars>>

\* lines 200-215: a click on the trash button of a listed project
handleDeleteProject(projectId) ==
    /\ mounted
    /\ LET updatedProjects == SelectSeq(savedProjects, LAMBDA p : p.id # projectId)
       IN  /\ savedProjects' = updatedProjects
           /\ localStorage' = Stringify(updatedProjects)
    /\ selectedProjectResults' =
          IF selectedProjectResults # NoReport /\ selectedProjectResults.project.id = projectId
          THEN NoReport
          ELSE selectedProjectResults
    /\ UNCHANGED mounted
    /\ UNCHANGED <<workspaceVars, notPageVars>>

NextDashboard ==
    \/ DashboardMount
    \/ \E i \in DOMAIN savedProjects : handleEvaluateProject(savedProjects[i])
    \/ \E i \in DOMAIN savedProjects : handleDeleteProject(savedProjects[i].id)

SpecDashboard == InitDashboard /\ [][NextDashboard]_vars

\* the report on screen, if any, is the report of a listed project
ReportListed ==
    selectedProjectResults # NoReport =>
        selectedProjectResults.project.id \in Ids(savedProjects)

----------------------------------------------------------------------------
(* The annotation page: project list, workspace, navigation guard *)

\* `image &&`, `currentProjectName &&`: neither null nor empty
Truthy(text) == text # Null /\ text # ""

\* line 164: the condition of the effect that tracks unsaved changes
Unsaved(img, name, anns) == Truthy(img) /\ Truthy(name) /\ Len(anns) = 0

\* the image a FileReader delivers, a data URL
DataUrl == "data:image"

\* uploadResult.image_url of a successful upload
MinioUrl == "http://minio/image"

\* lines 383-395: base64ToFile returns for a data URL; for any other text
\* atob throws
CanConvert(img) == img = DataUrl

\* the box a drag produces: at least 10 by 10, or too small to keep
DraggedBoxes ==
    { [x |-> 0, y |-> 0, width |-> 10, height |-> 10],
      [x |-> 0, y |-> 0, width |-> 9, height |-> 10] }

\* lines 552-569: the two boxes the Predict timer appends
mockPredictions ==
    << Annotation(50, 100, 120, 40, "Button"), Annotation(200, 150, 180, 35, "Input") >>

\* project lists the annotation page finds stored by an earlier session
WorkspaceStoredLists ==
    { l \in StoredLists :
        \A i \in DOMAIN l : l[i].annotations = <<Annotation(0, 0, 10, 10, "Button")>> }

WorkspaceStoredItems == { NoItem, Garbage } \cup { Stringify(l) : l \in WorkspaceStoredLists }

\* lines 122-129: a project of the server's answer, already transformed
ServerProjects ==
    { Project(i, "stored", MinioUrl, anns, 0, 0) :
        i \in 1..MaxStored, anns \in { <<>>, <<Annotation(0, 0, 10, 10, "Button")>> } }

\* the lists the server may answer with: its projects in the order of their ids
ServerLists ==
    { l \in SeqsUpTo(ServerProjects, MaxStored) :
        \A i, j \in DOMAIN l : i < j => l[i].id < l[j].id }

\* index of the first project with the id, 0 when there is none (findIndex)
FindIndex(projects, id) ==
    IF id \in Ids(projects)
    THEN CHOOSE i \in DOMAIN projects :
            /\ projects[i].id = id
            /\ \A j \in 1..(i - 1) : projects[j].id # id
    ELSE 0

\* an update that always appends
Upsert_Append(prev, projectData) == Append(prev, projectData)

\* lines 425-436 (and 455-464, 616-625, 651-660): replace the entry of the id,
\* keeping its createdAt, or append
Upsert(prev, projectData) ==
    LET existingIndex == FindIndex(prev, projectData.id)
    IN  IF existingIndex > 0
        THEN [prev EXCEPT ![existingIndex] =
                 [projectData EXCEPT !.createdAt = prev[existingIndex].createdAt]]
        ELSE Append(prev, projectData)

\* the page is mounted and has not navigated away
PageAlive == mounted /\ navigated = Null

\* the annotation page is opened in a browser whose localStorage holds item
OpenMain(item) ==
    /\ localStorage = item
    /\ storedAtOpen = item
    /\ savedProjects = <<>>
    /\ selectedProjectResults = NoReport
    /\ mounted = FALSE
    /\ image = Null
    /\ currentProjectName = ""
    /\ currentProjectId = NoId
    /\ annotations = <<>>
    /\ isDrawing = FALSE
    /\ currentBox = NoBox
    /\ isNameDialogOpen = FALSE
    /\ pendingImageFile = Null
    /\ projectName = ""
    /\ isUnsavedChangesDialogOpen = FALSE
    /\ pendingNavigation = Null
    /\ hasUnsavedChanges = FALSE
    /\ isUploading = FALSE
    /\ isLoadingProjects = FALSE
    /\ upload = NoUpload
    /\ fetches = 0
    /\ predictTimers = 0
    /\ now = MaxStored + 1
    /\ navigated = Null
    /\ NoWebhookTraffic
    /\ NoEvaluation

\* the page is opened after earlier sessions
InitMain == \E item \in WorkspaceStoredItems : OpenMain(item)

\* the page is opened for the first time in this browser
InitFirstVisit == OpenMain(NoItem)

\* lines 98-101, 104-113, 156-171: the effects of the first render, in the
\* order of their declaration: the project request is sent, the (empty)
\* savedProjects is written to localStorage, hasUnsavedChanges is computed
MainMount ==
    /\ ~mounted
    /\ mounted' = TRUE
    /\ isLoadingProjects' = TRUE
    /\ fetches' = fetches + 1
    /\ localStorage' = Stringify(savedProjects)
    /\ hasUnsavedChanges' = Unsaved(image, currentProjectName, annotations)
    /\ UNCHANGED <<savedProjects, projectVars, drawVars, nameDialogVars, navVars,
                   uploadVars, predictTimers, now>>
    /\ UNCHANGED notMainVars

\* lines 115-135, 151-153 and 156-159: the server answers with a project list
FetchOk(transformedProjects) ==
    /\ mounted /\ fetches > 0
    /\ fetches' = fetches - 1
    /\ isLoadingProjects' = FALSE
    /\ savedProjects' = transformedProjects
    /\ localStorage' = Stringify(transformedProjects)
    /\ UNCHANGED <<mounted, projectVars, drawVars, nameDialogVars, navVars, uploadVars,
                   hasUnsavedChanges, predictTimers, now>>
    /\ UNCHANGED notMainVars

\* lines 136-153 and 156-159: the request fails; fall back to localStorage
FetchFail ==
    /\ mounted /\ fetches > 0
    /\ fetches' = fetches - 1
    /\ isLoadingProjects' = FALSE
    /\ LET saved == localStorage
       IN  IF IsTruthyItem(saved) /\ Parses(saved)
           THEN /\ savedProjects' = Parse(saved)
                /\ localStorage' = Stringify(Parse(saved))
           ELSE UNCHANGED listVars
    /\ UNCHANGED <<mounted, projectVars, drawVars, nameDialogVars, navVars, uploadVars,
                   hasUnsavedChanges, predictTimers, now>>
    /\ UNCHANGED notMainVars

\* line 923: the refresh button of the projects panel
Refresh ==
    /\ PageAlive /\ ~isLoadingProjects
    /\ isLoadingProjects' = TRUE
    /\ fetches' = fetches + 1
    /\ UNCHANGED <<mounted, listVars, projectVars, drawVars, nameDialogVars, navVars,
                   uploadVars, hasUnsavedChanges, predictTimers, now>>
    /\ UNCHANGED notMainVars

\* the clock can still be read (bound of the model)
ClockRuns == now < MaxStored + 1 + MaxClock

\* lines 233-244 and 1145: an image is chosen on the empty workspace and read
handleImageUpload ==
    /\ PageAlive /\ image = Null
    /\ pendingImageFile' = DataUrl
    /\ isNameDialogOpen' = TRUE
    /\ UNCHANGED <<mounted, listVars, projectVars, drawVars, projectName, navVars,
                   uploadVars, fetchVars, hasUnsavedChanges, predictTimers, now>>
    /\ UNCHANGED notMainVars

\* line 1050: typing in the name dialog
TypeProjectName(text) ==
    /\ PageAlive /\ isNameDialogOpen /\ projectName # text
    /\ projectName' = text
    /\ UNCHANGED <<mounted, listVars, projectVars, drawVars, isNameDialogOpen,
                   pendingImageFile, navVars, uploadVars, fetchVars, hasUnsavedChanges,
                   predictTimers, now>>
    /\ UNCHANGED notMainVars

\* lines 246-260 and 161-171: Create Project or Enter in the name dialog
handleProjectNameSubmit ==
    /\ PageAlive /\ isNameDialogOpen /\ ClockRuns
    /\ IF Truthy(projectName) /\ Truthy(pendingImageFile)
       THEN /\ image' = pendingImageFile
            /\ currentProjectName' = projectName
            /\ currentProjectId' = now
            /\ now' = now + 1
            /\ annotations' = <<>>
            /\ isNameDialogOpen' = FALSE
            /\ projectName' = ""
            /\ pendingImageFile' = Null
            /\ hasUnsavedChanges' = Unsaved(pendingImageFile, projectName, <<>>)
       ELSE UNCHANGED <<projectVars, nameDialogVars, hasUnsavedChanges, now>>
    /\ UNCHANGED <<mounted, listVars, drawVars, navVars, uploadVars, fetchVars,
                   predictTimers>>
    /\ UNCHANGED notMainVars

\* lines 1063-1067: Cancel in the name dialog
CancelNameDialog ==
    /\ PageAlive /\ isNameDialogOpen
    /\ isNameDialogOpen' = FALSE
    /\ projectName' = ""
    /\ pendingImageFile' = Null
    /\ UNCHANGED <<mounted, listVars, projectVars, drawVars, navVars, uploadVars,
                   fetchVars, hasUnsavedChanges, predictTimers, now>>
    /\ UNCHANGED notMainVars

\* lines 274-284: the mouse goes down on the image (rendered only with an image)
handleMouseDown ==
    /\ PageAlive /\ image # Null
    /\ Len(annotations) + 2 * predictTimers < MaxAnnotations
    /\ isDrawing' = TRUE
    /\ currentBox' = NoBox
    /\ UNCHANGED <<mounted, listVars, projectVars, nameDialogVars, navVars, uploadVars,
                   fetchVars, hasUnsavedChanges, predictTimers, now>>
    /\ UNCHANGED notMainVars

\* lines 286-301: the mouse moves while drawing
handleMouseMove(box) ==
    /\ PageAlive /\ image # Null
    /\ isDrawing /\ currentBox # box
    /\ currentBox' = box
    /\ UNCHANGED <<mounted, listVars, projectVars, isDrawing, nameDialogVars, navVars,
                   uploadVars, fetchVars, hasUnsavedChanges, predictTimers, now>>
    /\ UNCHANGED notMainVars

\* lines 303-325 and 161-171: the mouse goes up
handleMouseUp ==
    /\ PageAlive /\ image # Null
    /\ IF ~isDrawing \/ currentBox = NoBox \/ currentBox.width < 10 \/ currentBox.height < 10
       THEN UNCHANGED <<annotations, hasUnsavedChanges>>
       ELSE LET newAnnotation == Annotation(currentBox.x, currentBox.y, currentBox.width,
                                            currentBox.height, "Button")
            IN  /\ annotations' = Append(annotations, newAnnotation)
                /\ hasUnsavedChanges' =
                      Unsaved(image, currentProjectName, Append(annotations, newAnnotation))
    /\ isDrawing' = FALSE
    /\ currentBox' = NoBox
    /\ UNCHANGED <<mounted, listVars, image, currentProjectName, currentProjectId,
                   nameDialogVars, navVars, uploadVars, fetchVars, predictTimers, now>>
    /\ UNCHANGED notMainVars

\* lines 335-341, 856 and 161-171: the clear-all button
clearAllAnnotations ==
    /\ PageAlive /\ annotations # <<>>
    /\ annotations' = <<>>
    /\ hasUnsavedChanges' = Unsaved(image, currentProjectName, <<>>)
    /\ UNCHANGED <<mounted, listVars, image, currentProjectName, currentProjectId,
                   drawVars, nameDialogVars, navVars, uploadVars, fetchVars,
                   predictTimers, now>>
    /\ UNCHANGED notMainVars

\* lines 543-551 and 575-576: Predict starts a 2-second timer
handlePredict ==
    /\ PageAlive /\ image # Null
    /\ Len(annotations) + 2 * (predictTimers + 1) <= MaxAnnotations
    /\ predictTimers' = predictTimers + 1
    /\ UNCHANGED <<mounted, listVars, projectVars, drawVars, nameDialogVars, navVars,
                   uploadVars, fetchVars, hasUnsavedChanges, now>>
    /\ UNCHANGED notMainVars

\* lines 551-575 and 161-171: a Predict timer fires
PredictTimeout ==
    /\ PageAlive /\ predictTimers > 0
    /\ predictTimers' = predictTimers - 1
    /\ annotations' = annotations \o mockPredictions
    /\ hasUnsavedChanges' = Unsaved(image, currentProjectName, annotations \o mockPredictions)
    /\ UNCHANGED <<mounted, listVars, image, currentProjectName, currentProjectId,
                   drawVars, nameDialogVars, navVars, uploadVars, fetchVars, now>>
    /\ UNCHANGED notMainVars

\* lines 474-484 and 161-171: a saved project is opened
loadProject(project) ==
    /\ PageAlive
    /\ image' = project.image
    /\ currentProjectName' = project.name
    /\ currentProjectId' = project.id
    /\ annotations' = project.annotations
    /\ hasUnsavedChanges' = Unsaved(project.image, project.name, project.annotations)
    /\ UNCHANGED <<mounted, listVars, drawVars, nameDialogVars, navVars, uploadVars,
                   fetchVars, predictTimers, now>>
    /\ UNCHANGED notMainVars

\* lines 486-503, 156-159 and 161-171: a saved project is deleted
deleteProject(projectId) ==
    /\ PageAlive
    /\ savedProjects' = SelectSeq(savedProjects, LAMBDA p : p.id # projectId)
    /\ localStorage' = Stringify(SelectSeq(savedProjects, LAMBDA p : p.id # projectId))
    /\ IF currentProjectId = projectId
       THEN /\ image' = Null
            /\ currentProjectName' = ""
            /\ currentProjectId' = NoId
            /\ annotations' = <<>>
            /\ hasUnsavedChanges' = Unsaved(Null, "", <<>>)
       ELSE UNCHANGED <<projectVars, hasUnsavedChanges>>
    /\ UNCHANGED <<mounted, drawVars, nameDialogVars, navVars, uploadVars, fetchVars,
                   predictTimers, now>>
    /\ UNCHANGED notMainVars

\* lines 705-721 (and 730-745) and 161-171: the New Project button
NewProject ==
    /\ PageAlive
    /\ image' = Null
    /\ currentProjectName' = ""
    /\ currentProjectId' = NoId
    /\ annotations' = <<>>
    /\ isDrawing' = FALSE
    /\ currentBox' = NoBox
    /\ isNameDialogOpen' = FALSE
    /\ projectName' = ""
    /\ pendingImageFile' = Null
    /\ hasUnsavedChanges' = Unsaved(Null, "", <<>>)
    /\ UNCHANGED <<mounted, listVars, navVars, uploadVars, fetchVars, predictTimers, now>>
    /\ UNCHANGED notMainVars

\* what a save captures when it is called: the project of that render
SaveClosure(kind, anns) ==
    [kind |-> kind, id |-> currentProjectId, name |-> currentProjectName,
     image |-> image, annotations |-> anns, pendingNavigation |-> pendingNavigation]

\* lines 416-423 and 446-453 (607-614, 642-649): the entry a save stores
ProjectData(u, img) == Project(u.id, u.name, img, u.annotations, now, now)

\* lines 425-438 and 455-466 with 156-159: the entry replaces or joins the
\* list, which the effect writes to localStorage
StoreProject(u, img) ==
    /\ savedProjects' = Upsert(savedProjects, ProjectData(u, img))
    /\ localStorage' = Stringify(Upsert(savedProjects, ProjectData(u, img)))
    /\ hasUnsavedChanges' = FALSE
    /\ now' = now + 1

\* lines 627-638 and 662-673: the dialog closes and the page leaves for the
\* target the closure captured
CloseAndLeave(u) ==
    /\ isUnsavedChangesDialogOpen' = FALSE
    /\ pendingNavigation' = Null
    /\ navigated' = u.pendingNavigation

\* lines 397-413, 443-471 and 344-358, 767: the Save button; a project whose
\* image is no data URL fails in base64ToFile and is stored at once
saveProject ==
    /\ PageAlive /\ ClockRuns
    /\ Truthy(image) /\ Truthy(currentProjectName) /\ ~isUploading
    /\ IF currentProjectId = NoId
       THEN UNCHANGED <<listVars, hasUnsavedChanges, now, uploadVars>>
       ELSE IF CanConvert(image)
            THEN /\ isUploading' = TRUE
                 /\ upload' = SaveClosure("save", annotations)
                 /\ UNCHANGED <<listVars, hasUnsavedChanges, now>>
            ELSE /\ StoreProject(SaveClosure("save", annotations), image)
                 /\ UNCHANGED uploadVars
    /\ UNCHANGED <<mounted, projectVars, drawVars, nameDialogVars, navVars, fetchVars,
                   predictTimers>>
    /\ UNCHANGED notMainVars

\* lines 589-604, 639-674 and 1114-1117: Save & Continue in the dialog
handleSaveAndNavigate ==
    /\ PageAlive /\ ClockRuns
    /\ isUnsavedChangesDialogOpen /\ ~isUploading
    /\ IF Truthy(image) /\ Truthy(currentProjectName) /\ currentProjectId # NoId
       THEN IF CanConvert(image)
            THEN /\ isUploading' = TRUE
                 /\ upload' = SaveClosure("saveAndNavigate", <<>>)
                 /\ UNCHANGED <<listVars, hasUnsavedChanges, now, navVars>>
            ELSE /\ StoreProject(SaveClosure("saveAndNavigate", <<>>), image)
                 /\ CloseAndLeave(SaveClosure("saveAndNavigate", <<>>))
                 /\ UNCHANGED uploadVars
       ELSE UNCHANGED <<listVars, hasUnsavedChanges, now, navVars, uploadVars>>
    /\ UNCHANGED <<mounted, projectVars, drawVars, nameDialogVars, fetchVars,
                   predictTimers>>
    /\ UNCHANGED notMainVars

\* lines 360-370, 377-379 and 415-442 (606-638): the upload succeeds
UploadOk ==
    /\ PageAlive /\ upload # NoUpload
    /\ isUploading' = FALSE
    /\ upload' = NoUpload
    /\ StoreProject(upload, MinioUrl)
    /\ IF upload.kind = "saveAndNavigate" THEN CloseAndLeave(upload) ELSE UNCHANGED navVars
    /\ UNCHANGED <<mounted, projectVars, drawVars, nameDialogVars, fetchVars,
                   predictTimers>>
    /\ UNCHANGED notMainVars

\* lines 360-362, 371-379 and 443-471 (639-674): the upload fails
UploadFail ==
    /\ PageAlive /\ upload # NoUpload
    /\ isUploading' = FALSE
    /\ upload' = NoUpload
    /\ StoreProject(upload, upload.image)
    /\ IF upload.kind = "saveAndNavigate" THEN CloseAndLeave(upload) ELSE UNCHANGED navVars
    /\ UNCHANGED <<mounted, projectVars, drawVars, nameDialogVars, fetchVars,
                   predictTimers>>
    /\ UNCHANGED notMainVars

\* the routes of the header links
Hrefs == { "/main", "/dashboard" }

\* a guard that lets every click through
handleNavigation_Allow(href) ==
    /\ navigated' = href
    /\ UNCHANGED <<isUnsavedChangesDialogOpen, pendingNavigation>>

\* lines 578-587 and, in the header, 16-23: the guard keeps the click from
\* navigating when it returns false
handleNavigation(href) ==
    IF hasUnsavedChanges
    THEN /\ pendingNavigation' = href
         /\ isUnsavedChangesDialogOpen' = TRUE
         /\ UNCHANGED navigated
    ELSE /\ navigated' = href
         /\ UNCHANGED <<isUnsavedChangesDialogOpen, pendingNavigation>>

\* header lines 16-23, 47 and 61: a click on a header link
handleLinkClick(href) ==
    /\ PageAlive
    /\ handleNavigation(href)
    /\ UNCHANGED <<mounted, listVars, projectVars, drawVars, nameDialogVars, uploadVars,
                   fetchVars, hasUnsavedChanges, predictTimers, now>>
    /\ UNCHANGED notMainVars

\* lines 678-687 and 1107-1113: Discard & Leave in the dialog
handleDiscardAndNavigate ==
    /\ PageAlive /\ isUnsavedChangesDialogOpen
    /\ hasUnsavedChanges' = FALSE
    /\ isUnsavedChangesDialogOpen' = FALSE
    /\ navigated' = pendingNavigation
    /\ UNCHANGED pendingNavigation
    /\ UNCHANGED <<mounted, listVars, projectVars, drawVars, nameDialogVars, uploadVars,
                   fetchVars, predictTimers, now>>
    /\ UNCHANGED notMainVars

\* line 1080: the dialog is dismissed (Escape, close button, click outside)
DismissUnsavedDialog ==
    /\ PageAlive /\ isUnsavedChangesDialogOpen
    /\ isUnsavedChangesDialogOpen' = FALSE
    /\ UNCHANGED <<pendingNavigation, navigated>>
    /\ UNCHANGED <<mounted, listVars, projectVars, drawVars, nameDialogVars, uploadVars,
                   fetchVars, hasUnsavedChanges, predictTimers, now>>
    /\ UNCHANGED notMainVars

\* the steps that create and draw a project
Workspace ==
    \/ handleImageUpload
    \/ \E text \in { "", "UI" } : TypeProjectName(text)
    \/ handleProjectNameSubmit
    \/ CancelNameDialog
    \/ handleMouseDown
    \/ \E box \in DraggedBoxes : handleMouseMove(box)
    \/ handleMouseUp

\* the project list across page loads: mount, server answers, refresh
NextMount ==
    \/ MainMount
    \/ \E transformedProjects \in ServerLists : FetchOk(transformedProjects)
    \/ FetchFail
    \/ Refresh
    \/ \E i \in DOMAIN savedProjects : loadProject(savedProjects[i])
    \/ \E i \in DOMAIN savedProjects : deleteProject(savedProjects[i].id)
    \/ clearAllAnnotations
    \/ NewProject

SpecMount == InitMain /\ [][NextMount]_vars

\* answers of a server that holds at most the project of id 1
OneProjectLists == { l \in ServerLists : \A i \in DOMAIN l : l[i].id = 1 }

\* saving: projects are created, drawn, opened and saved
NextProjects ==
    \/ MainMount
    \/ \E transformedProjects \in OneProjectLists : FetchOk(transformedProjects)
    \/ FetchFail
    \/ Workspace
    \/ saveProject
    \/ UploadOk
    \/ UploadFail
    \/ \E i \in DOMAIN savedProjects : loadProject(savedProjects[i])

SpecProjects == InitFirstVisit /\ [][NextProjects]_vars

\* C25: when the request the page sends on mount fails, with nothing saved
\* in the session yet, the list becomes the list that was stored before the
\* page was opened (the write effect of the mount has not replaced it).
C25_FallbackRestoresStored ==
    [][ (/\ FetchFail
         /\ savedProjects = <<>>
         /\ now = MaxStored + 1
         /\ IsTruthyItem(storedAtOpen) /\ Parses(storedAtOpen))
        => savedProjects' = Parse(storedAtOpen) ]_vars

\* no id occurs twice in the list
UniqueIds(projects) == Cardinality(Ids(projects)) = Len(projects)

\* the list after a save of closure u: one entry of u's id with u's
\* annotations, in the place of the old entry of the id and with its
\* createdAt, or appended; every other entry as before
SavedExactlyOnce(u) ==
    LET k == FindIndex(savedProjects, u.id)
    IN  /\ Cardinality({ i \in DOMAIN savedProjects' : savedProjects'[i].id = u.id }) = 1
        /\ IF k > 0
           THEN /\ Len(savedProjects') = Len(savedProjects)
                /\ savedProjects'[k].id = u.id
                /\ savedProjects'[k].annotations = u.annotations
                /\ savedProjects'[k].createdAt = savedProjects[k].createdAt
                /\ \A i \in DOMAIN savedProjects : i # k => savedProjects'[i] = savedProjects[i]
           ELSE /\ Len(savedProjects') = Len(savedProjects) + 1
                /\ savedProjects'[Len(savedProjects')].id = u.id
                /\ savedProjects'[Len(savedProjects')].annotations = u.annotations
                /\ \A i \in DOMAIN savedProjects : savedProjects'[i] = savedProjects[i]

\* C29: a save ends with the project in the list, whether its upload
\* succeeds, fails, or the image cannot be converted: exactly one entry has
\* the project's id and holds the annotations of the save, replacing the old
\* entry (createdAt kept) or appended; ids are unique after every step.
C29_SaveKeepsProject ==
    [][ /\ (upload # NoUpload /\ upload' = NoUpload) => SavedExactlyOnce(upload)
        /\ (saveProject /\ currentProjectId # NoId /\ ~CanConvert(image))
              => SavedExactlyOnce(SaveClosure("save", annotations))
        /\ UniqueIds(savedProjects') ]_vars

\* a project saved before was saved again with a drawn box, the upload
\* failed, and its entry was replaced in place
C29_Witness ==
    /\ upload = NoUpload
    /\ \E i \in DOMAIN savedProjects :
          /\ savedProjects[i].id = currentProjectId
          /\ savedProjects[i].image = DataUrl
          /\ savedProjects[i].createdAt < savedProjects[i].updatedAt
          /\ savedProjects[i].annotations = annotations
          /\ annotations # <<>>

----------------------------------------------------------------------------
(* The workspace of the annotation page *)

\* creation, drawing, Predict and its timer, opening, deletion, New Project
NextWorkspace ==
    \/ MainMount
    \/ \E transformedProjects \in OneProjectLists : FetchOk(transformedProjects)
    \/ Workspace
    \/ handlePredict
    \/ PredictTimeout
    \/ clearAllAnnotations
    \/ \E i \in DOMAIN savedProjects : loadProject(savedProjects[i])
    \/ \E i \in DOMAIN savedProjects : deleteProject(savedProjects[i].id)
    \/ NewProject

SpecWorkspace == InitFirstVisit /\ [][NextWorkspace]_vars

\* C26: whenever no image is loaded the annotation list is empty.
C26_NoImageNoAnnotations == image = Null => annotations = <<>>

----------------------------------------------------------------------------
(* The navigation guard of the annotation page *)

\* header clicks, the unsaved-changes dialog and the saves behind it
NextNavigation ==
    \/ MainMount
    \/ FetchFail
    \/ Workspace
    \/ clearAllAnnotations
    \/ \E i \in DOMAIN savedProjects : loadProject(savedProjects[i])
    \/ saveProject
    \/ \E href \in Hrefs : handleLinkClick(href)
    \/ handleSaveAndNavigate
    \/ UploadOk
    \/ UploadFail
    \/ handleDiscardAndNavigate
    \/ DismissUnsavedDialog

SpecNavigation == InitFirstVisit /\ [][NextNavigation]_vars

\* the step ends a Save & Continue: its upload returns, or the image could
\* not be converted and the project was stored at once
SaveAndContinueEnds ==
    \/ /\ upload # NoUpload /\ upload.kind = "saveAndNavigate" /\ upload' = NoUpload
       /\ navigated' = upload.pendingNavigation
    \/ /\ handleSaveAndNavigate /\ ~CanConvert(image)
       /\ navigated' = pendingNavigation

\* C28: hasUnsavedChanges is true only with an image, a project name and no
\* annotation; a header click with hasUnsavedChanges true does not navigate,
\* stores its target as pendingNavigation and opens the dialog, and with
\* hasUnsavedChanges false navigates without touching the dialog; every
\* other navigation is the end of Save & Continue or Discard & Leave and
\* goes to the stored target.
C28_NavigationGuard ==
    [][ /\ hasUnsavedChanges => Unsaved(image, currentProjectName, annotations)
        /\ \A href \in Hrefs :
              handleLinkClick(href) =>
                  IF hasUnsavedChanges
                  THEN /\ navigated' = navigated
                       /\ pendingNavigation' = href
                       /\ isUnsavedChangesDialogOpen'
                  ELSE /\ navigated' = href
                       /\ isUnsavedChangesDialogOpen' = isUnsavedChangesDialogOpen
        /\ navigated' # navigated =>
              \/ \E href \in Hrefs : handleLinkClick(href) /\ ~hasUnsavedChanges
              \/ handleDiscardAndNavigate /\ navigated' = pendingNavigation
              \/ SaveAndContinueEnds ]_vars

\* a click on Dashboard was held back, Save & Continue stored the empty
\* project after its upload failed, and the page left for the dashboard
C28_Witness ==
    /\ navigated = "/dashboard"
    /\ pendingNavigation = Null
    /\ ~isUnsavedChangesDialogOpen
    /\ upload = NoUpload
    /\ \E i \in DOMAIN savedProjects :
          /\ savedProjects[i].id = currentProjectId
          /\ savedProjects[i].image = DataUrl
          /\ savedProjects[i].annotations = <<>>

====
